---- MODULE Spec2Model ----
(***************************************************************************)
(* A model of src/server.py: the URL normaliser (_clean_url), the yt-dlp   *)
(* invocation cascade (_run_yt_dlp_json, _yt_dlp_fallback_extraction) and  *)
(* the format normalisation and result envelope of extract.                *)
(*                                                                         *)
(* The text of a Python str is a sequence of one-character strings.  A     *)
(* Python value is a record tagged by its type in field t: Absent (the key *)
(* is not in the dict), PyNone, PyInt(n), PyFloat(n), PyStr(s), PyList(l)  *)
(* and the dicts.  Only floats with an integral value are modelled: 30.0   *)
(* is PyFloat(30).                                                         *)
(***************************************************************************)
EXTENDS Integers, Sequences, FiniteSets, TLC

VARIABLES
    pc,         \* position of the request in extract / _run_yt_dlp_json
    request,    \* VideoRequest: [url, timeout]
    url,        \* the local `url` of _run_yt_dlp_json after _clean_url
    cmd,        \* the profile of the local `cmd` last built
    attempts,   \* the subprocess.run calls made so far, in order
    result,     \* the local `result`: the last completed subprocess
    last_stderr,\* history: the latest nonempty stderr any attempt wrote
    json_data,  \* the local `json_data` of extract
    response,   \* what extract handed to its caller (envelope or raise)
    norm,       \* study of _clean_url: input, one pass, two passes
    fn,         \* study of the format loop of extract
    lb          \* study of _generate_quality_label

svcVars == <<pc, request, url, cmd, attempts, result, last_stderr, json_data, response>>

vars == <<pc, request, url, cmd, attempts, result, last_stderr, json_data, response, norm, fn, lb>>

----------------------------------------------------------------------------
(* Bounds of the model *)

MaxIdLen == 3

----------------------------------------------------------------------------
(* Python values *)

Absent == [t |-> "absent"]
PyNone == [t |-> "none"]

PyInt(n) == [t |-> "int", v |-> n]
PyFloat(n) == [t |-> "float", v |-> n]
\* the float n + h/100 for n >= 0 and h in 1..99, such as 29.97: v is int()
\* of it.  Only _generate_quality_label is modelled on such a value.
PyFrac(n, h) == [t |-> "float", v |-> n, frac |-> h]
\* the hundredths of a number after its whole part
Frac(x) == IF "frac" \in DOMAIN x THEN x.frac ELSE 0
PyStr(s) == [t |-> "str", s |-> s]
PyList(l) == [t |-> "list", items |-> l]

IsNum(x) == x.t \in {"int", "float"}

\* bool(x)
Truthy(x) ==
    CASE x.t \in {"absent", "none"} -> FALSE
      [] x.t \in {"int", "float"} -> x.v # 0 \/ Frac(x) # 0
      [] x.t = "str" -> x.s # <<>>
      [] x.t = "list" -> x.items # <<>>
      [] OTHER -> TRUE

\* d.get(k, default)
get(d, k, default) == IF d[k].t = "absent" THEN default ELSE d[k]

----------------------------------------------------------------------------
(* str operations used by the source *)

S_youtu_be_slash == <<"y", "o", "u", "t", "u", ".", "b", "e", "/">>
S_shorts == <<"y", "o", "u", "t", "u", "b", "e", ".", "c", "o", "m", "/", "s", "h", "o", "r", "t", "s", "/">>
S_watch == <<"y", "o", "u", "t", "u", "b", "e", ".", "c", "o", "m", "/", "w", "a", "t", "c", "h">>
S_v_eq == <<"v", "=">>
S_canonical == <<"h", "t", "t", "p", "s", ":", "/", "/", "w", "w", "w", ".", "y", "o", "u", "t", "u", "b", "e", ".", "c", "o", "m", "/", "w", "a", "t", "c", "h", "?", "v", "=">>
S_http == <<"h", "t", "t", "p", ":", "/", "/">>
S_https == <<"h", "t", "t", "p", "s", ":", "/", "/">>
S_youtube == <<"y", "o", "u", "t", "u", "b", "e">>
S_youtu_be == <<"y", "o", "u", "t", "u", ".", "b", "e">>

\* the characters str.strip() removes, as far as the model's alphabet has them
WhiteSpace == {" ", "\t", "\n", "\r", "\f"}

\* the characters url.strip('\'" \t\n\r') removes
QuoteChars == {"'", "\"", " ", "\t", "\n", "\r"}

StartsWith(s, p) == Len(s) >= Len(p) /\ SubSeq(s, 1, Len(p)) = p

\* s.find(p) + 1: the first position where p occurs in s, 0 when it does not
Find(s, p) ==
    LET hits == {i \in 1..(Len(s) - Len(p) + 1) : SubSeq(s, i, i + Len(p) - 1) = p}
    IN IF hits = {} THEN 0 ELSE CHOOSE i \in hits : \A j \in hits : i <= j

\* p in s
Contains(s, p) == Find(s, p) # 0

\* s.split(p)[0]
Before(s, p) ==
    LET i == Find(s, p) IN IF i = 0 THEN s ELSE SubSeq(s, 1, i - 1)

\* s.split(p, 1)[1], for p in s
After(s, p) == SubSeq(s, Find(s, p) + Len(p), Len(s))

\* s.split(p)[1], for p in s
SplitSecond(s, p) == Before(After(s, p), p)

RECURSIVE Split(_, _)
\* s.split(p)
Split(s, p) ==
    IF Contains(s, p) THEN <<Before(s, p)>> \o Split(After(s, p), p) ELSE <<s>>

RECURSIVE LStrip(_, _)
LStrip(s, cs) ==
    IF s # <<>> /\ s[1] \in cs THEN LStrip(Tail(s), cs) ELSE s

RECURSIVE RStrip(_, _)
RStrip(s, cs) ==
    IF s # <<>> /\ s[Len(s)] \in cs THEN RStrip(SubSeq(s, 1, Len(s) - 1), cs) ELSE s

\* s.strip(cs)
Strip(s, cs) == RStrip(LStrip(s, cs), cs)

\* s.replace(a, b) for single characters
Replace(s, a, b) == [i \in 1..Len(s) |-> IF s[i] = a THEN b ELSE s[i]]

----------------------------------------------------------------------------
(* urllib.parse, as far as _clean_url uses it *)

HexVal ==
    [c \in {"0", "1", "2", "3", "4", "5", "6", "7", "8", "9",
            "a", "b", "c", "d", "e", "f", "A", "B", "C", "D", "E", "F"} |->
        CASE c = "0" -> 0 [] c = "1" -> 1 [] c = "2" -> 2 [] c = "3" -> 3
          [] c = "4" -> 4 [] c = "5" -> 5 [] c = "6" -> 6 [] c = "7" -> 7
          [] c = "8" -> 8 [] c = "9" -> 9
          [] c \in {"a", "A"} -> 10 [] c \in {"b", "B"} -> 11
          [] c \in {"c", "C"} -> 12 [] c \in {"d", "D"} -> 13
          [] c \in {"e", "E"} -> 14 [] c \in {"f", "F"} -> 15]

\* the printable ASCII characters, code 32 first (the grave accent, which a
\* TLA+ string cannot hold, is a token)
Ascii ==
    <<" ", "!", "\"", "#", "$", "%", "&", "'", "(", ")", "*", "+", ",", "-", ".", "/",
      "0", "1", "2", "3", "4", "5", "6", "7", "8", "9", ":", ";", "<", "=", ">", "?",
      "@", "A", "B", "C", "D", "E", "F", "G", "H", "I", "J", "K", "L", "M", "N", "O",
      "P", "Q", "R", "S", "T", "U", "V", "W", "X", "Y", "Z", "[", "\\", "]", "^", "_",
      "<grave>", "a", "b", "c", "d", "e", "f", "g", "h", "i", "j", "k", "l", "m", "n", "o",
      "p", "q", "r", "s", "t", "u", "v", "w", "x", "y", "z", "{", "|", "}", "~">>

\* chr(n) for one decoded byte; a byte outside printable ASCII is kept as a
\* token of its own, which is none of the characters the source tests for
Chr(n) == IF n >= 32 /\ n <= 126 THEN Ascii[n - 31] ELSE "<byte>"

RECURSIVE unquote(_)
\* urllib.parse.unquote: %XX with two hex digits is decoded, any other %
\* is kept as it is
unquote(s) ==
    IF s = <<>> THEN <<>>
    ELSE IF s[1] = "%" /\ Len(s) >= 3 /\ s[2] \in DOMAIN HexVal /\ s[3] \in DOMAIN HexVal
         THEN <<Chr(16 * HexVal[s[2]] + HexVal[s[3]])>> \o unquote(SubSeq(s, 4, Len(s)))
         ELSE <<s[1]>> \o unquote(Tail(s))

\* urlparse(url).query: the fragment is cut at the first '#', then the query
\* is what follows the first '?'
urlparse_query(u) ==
    LET nofrag == Before(u, <<"#">>)
    IN IF Contains(nofrag, <<"?">>) THEN After(nofrag, <<"?">>) ELSE <<>>

RECURSIVE parse_fields(_)
\* parse_qsl over the '&'-separated fields: <<name, value>> pairs, fields
\* without '=' and fields with a blank value are skipped
parse_fields(fields) ==
    IF fields = <<>> THEN <<>>
    ELSE LET f == Head(fields)
             keep == Contains(f, <<"=">>) /\ After(f, <<"=">>) # <<>>
             pair == <<unquote(Replace(Before(f, <<"=">>), "+", " ")),
                       unquote(Replace(After(f, <<"=">>), "+", " "))>>
         IN (IF keep THEN <<pair>> ELSE <<>>) \o parse_fields(Tail(fields))

\* parse_qs(qs).get(key)[0], Absent when key is not in parse_qs(qs)
parse_qs_first(qs, key) ==
    LET pairs == IF qs = <<>> THEN <<>> ELSE parse_fields(Split(qs, <<"&">>))
        hits == {i \in 1..Len(pairs) : pairs[i][1] = key}
    IN IF hits = {} THEN Absent
       ELSE PyStr(pairs[CHOOSE i \in hits : \A j \in hits : i <= j][2])

----------------------------------------------------------------------------
(* VideoExtractorEngine._clean_url *)

ensure_protocol(u) ==
    IF StartsWith(u, S_http) \/ StartsWith(u, S_https) THEN u ELSE S_https \o u

watch_branch(u) ==
    LET video_id == parse_qs_first(urlparse_query(u), <<"v">>)
    IN IF video_id.t = "absent" THEN u ELSE S_canonical \o video_id.s

clean_url(raw) ==
    IF raw = <<>> THEN <<>>
    ELSE LET u == Strip(Strip(raw, WhiteSpace), QuoteChars)
             rewritten ==
                 IF Contains(u, S_youtu_be_slash)
                 THEN S_canonical \o Before(Before(SplitSecond(u, S_youtu_be_slash), <<"?">>), <<"&">>)
                 ELSE IF Contains(u, S_shorts)
                 THEN S_canonical \o Before(Before(SplitSecond(u, S_shorts), <<"?">>), <<"&">>)
                 ELSE IF Contains(u, S_watch) /\ Contains(u, S_v_eq)
                 THEN watch_branch(u)
                 ELSE u
         IN ensure_protocol(rewritten)

----------------------------------------------------------------------------
(* Inputs of the study of _clean_url *)

IdAlphabet == {"x", "#", "%", "+", "/", "2", "3", "&"}

RECURSIVE SeqsUpTo(_, _)
\* the sequences over S of length at most n
SeqsUpTo(S, n) ==
    IF n = 0 THEN {<<>>}
    ELSE LET shorter == SeqsUpTo(S, n - 1)
         IN shorter \cup {Append(s, c) : s \in {t \in shorter : Len(t) = n - 1}, c \in S}

S_example == <<"e", "x", ".", "c", "o", "/">>
S_watch_q == <<"y", "o", "u", "t", "u", "b", "e", ".", "c", "o", "m", "/", "w", "a", "t", "c", "h", "?", "v", "=">>

UrlPrefixes == {S_youtu_be_slash, S_shorts, S_watch_q, S_canonical, S_example}

\* what surrounds the URL: nothing, quotes, quotes inside blanks, and a form
\* feed inside the quotes (whitespace that only the first strip() removes)
Wrappers ==
    { <<<<>>, <<>>>>,
      <<<<"\"">>, <<"\"">>>>,
      <<<<" ", "'">>, <<"'", " ">>>>,
      <<<<"\"">>, <<"\f", "\"">>>> }

UrlInputs ==
    {w[1] \o p \o id \o w[2] : w \in Wrappers, p \in UrlPrefixes, id \in SeqsUpTo(IdAlphabet, MaxIdLen)}

----------------------------------------------------------------------------
(* Specification of the study of _clean_url *)

IdleSvc ==
    /\ pc = "off"
    /\ request = Absent
    /\ url = <<>>
    /\ cmd = Absent
    /\ attempts = <<>>
    /\ result = Absent
    /\ last_stderr = <<>>
    /\ json_data = Absent
    /\ response = Absent

IdleNorm == norm = [stage |-> "off"]
IdleFn == fn = [stage |-> "off"]
IdleLb == lb = [stage |-> "off"]

InitUrl ==
    /\ IdleSvc /\ IdleFn /\ IdleLb
    /\ \E x \in UrlInputs : norm = [stage |-> "input", x |-> x]

CleanOnce ==
    /\ norm.stage = "input"
    /\ norm' = [stage |-> "once", x |-> norm.x, once |-> clean_url(norm.x)]
    /\ UNCHANGED <<svcVars, fn, lb>>

CleanTwice ==
    /\ norm.stage = "once"
    /\ norm' = [stage |-> "twice", x |-> norm.x, once |-> norm.once,
                twice |-> clean_url(norm.once)]
    /\ UNCHANGED <<svcVars, fn, lb>>

NextUrl == CleanOnce \/ CleanTwice

SpecUrl == InitUrl /\ [][NextUrl]_vars

----------------------------------------------------------------------------
(* C7: the URL normaliser is idempotent: cleaning a cleaned URL gives the  *)
(* same URL, for every input                                               *)
C7_Idempotent ==
    norm.stage = "twice" => norm.twice = norm.once

----------------------------------------------------------------------------
(* Formatting of Python values into text *)

Digit(d) == Ascii[d + 17]

RECURSIVE NatToStr(_)
NatToStr(n) == IF n < 10 THEN <<Digit(n)>> ELSE NatToStr(n \div 10) \o <<Digit(n % 10)>>

\* str(n) for an int
IntToStr(n) == IF n < 0 THEN <<"-">> \o NatToStr(-n) ELSE NatToStr(n)

\* the digits repr() writes after the point of a float
FracDigits(h) ==
    IF h % 10 = 0 THEN <<Digit(h \div 10)>> ELSE <<Digit(h \div 10), Digit(h % 10)>>

\* str(x), and x in an f-string: 30 is "30", 30.0 is "30.0", None is "None"
Str(x) ==
    CASE x.t = "int" -> IntToStr(x.v)
      [] x.t = "float" -> IntToStr(x.v) \o <<".">> \o FracDigits(Frac(x))
      [] x.t = "str" -> x.s
      [] x.t = "none" -> <<"N", "o", "n", "e">>

\* c.lower() for one character
LowerChar(c) ==
    IF \E i \in 34..59 : Ascii[i] = c
    THEN Ascii[(CHOOSE i \in 34..59 : Ascii[i] = c) + 32]
    ELSE c

\* s.lower()
Lower(s) == [i \in 1..Len(s) |-> LowerChar(s[i])]

\* the exception a Python operation raised; the text of an exception that
\* the interpreter raises is not spelled out
Raise(exc, msg) == [t |-> "raise", exc |-> exc, msg |-> msg]
Return(value) == [t |-> "return", value |-> value]
TypeError == Raise("TypeError", <<"<TypeError>">>)
AttributeError == Raise("AttributeError", <<"<AttributeError>">>)

----------------------------------------------------------------------------
(* VideoExtractorEngine._extract_format_url *)

usable_url(u) == Truthy(u) /\ u.t = "str" /\ StartsWith(u.s, <<"h", "t", "t", "p">>)

extract_format_url(fmt) ==
    IF usable_url(fmt.url) THEN fmt.url
    ELSE IF usable_url(fmt.manifest_url) THEN fmt.manifest_url
    ELSE IF usable_url(fmt.fragment_base_url) THEN fmt.fragment_base_url
    ELSE PyNone

----------------------------------------------------------------------------
(* VideoExtractorEngine._generate_quality_label *)

resolution_tier(height, format_note) ==
    IF height.v >= 4320 THEN <<"8", "K">>
    ELSE IF height.v >= 2160 THEN <<"4", "K">>
    ELSE IF height.v >= 1440 THEN <<"1", "4", "4", "0", "p">>
    ELSE IF height.v >= 1080 THEN <<"1", "0", "8", "0", "p">>
    ELSE IF height.v >= 720 THEN <<"7", "2", "0", "p">>
    ELSE IF height.v >= 480 THEN <<"4", "8", "0", "p">>
    ELSE IF height.v >= 360 THEN <<"3", "6", "0", "p">>
    ELSE IF height.v >= 240 THEN <<"2", "4", "0", "p">>
    ELSE IF height.v >= 144 THEN <<"1", "4", "4", "p">>
    ELSE IF Truthy(format_note) THEN format_note.s
    ELSE Str(height) \o <<"p">>

\* fps > n for a number fps and an integer n
Above(fps, n) == fps.v > n \/ (fps.v = n /\ Frac(fps) > 0)

\* both branches of the source appending: 60 gets the suffix twice
fps_suffix_sixty_twice(fps) ==
    (IF Truthy(fps) /\ Above(fps, 30) THEN IntToStr(fps.v) \o <<"f", "p", "s">> ELSE <<>>)
    \o (IF IsNum(fps) /\ fps.v = 60 /\ Frac(fps) = 0 THEN <<"6", "0", "f", "p", "s">> ELSE <<>>)

fps_suffix(fps) ==
    IF Truthy(fps) /\ Above(fps, 30) THEN IntToStr(fps.v) \o <<"f", "p", "s">>
    ELSE IF IsNum(fps) /\ fps.v = 60 /\ Frac(fps) = 0 THEN <<"6", "0", "f", "p", "s">>
    ELSE <<>>

codec_tag(vcodec) ==
    IF Truthy(vcodec) /\ vcodec # PyStr(<<"n", "o", "n", "e">>)
    THEN IF Contains(Lower(Str(vcodec)), <<"v", "p", "9">>) THEN <<" ", "(", "V", "P", "9", ")">>
         ELSE IF Contains(Lower(Str(vcodec)), <<"a", "v", "c">>) THEN <<" ", "(", "H", ".", "2", "6", "4", ")">>
         ELSE IF Contains(Lower(Str(vcodec)), <<"a", "v", "1">>) THEN <<" ", "(", "A", "V", "1", ")">>
         ELSE <<>>
    ELSE <<>>

\* the label, or the TypeError of comparing a height that is no number
generate_quality_label(fmt) ==
    LET height == get(fmt, "height", PyInt(0))
        fps == get(fmt, "fps", PyInt(0))
        format_note == get(fmt, "format_note", PyStr(<<>>))
        vcodec == get(fmt, "vcodec", PyStr(<<>>))
    IN IF ~IsNum(height) THEN TypeError
       ELSE PyStr(resolution_tier(height, format_note) \o fps_suffix(fps) \o codec_tag(vcodec))

----------------------------------------------------------------------------
(* VideoExtractorEngine._generate_audio_label *)

audio_codec_name(acodec) ==
    LET name == Lower(Str(acodec))
    IN IF Contains(name, <<"o", "p", "u", "s">>) THEN <<"O", "p", "u", "s">>
       ELSE IF Contains(name, <<"a", "a", "c">>) THEN <<"A", "A", "C">>
       ELSE IF Contains(name, <<"m", "p", "3">>) THEN <<"M", "P", "3">>
       ELSE IF Contains(name, <<"f", "l", "a", "c">>) THEN <<"F", "L", "A", "C">>
       ELSE IF Contains(name, <<"v", "o", "r", "b", "i", "s">>) THEN <<"V", "o", "r", "b", "i", "s">>
       ELSE <<"A", "u", "d", "i", "o">>

generate_audio_label(fmt) ==
    LET acodec == get(fmt, "acodec", PyStr(<<>>))
        abr == get(fmt, "abr", PyInt(0))
    IN IF Truthy(abr)
       THEN PyStr(audio_codec_name(acodec) \o <<" ">> \o IntToStr(abr.v) \o <<"k", "b", "p", "s">>)
       ELSE PyStr(audio_codec_name(acodec))

----------------------------------------------------------------------------
(* VideoExtractorEngine._format_bytes *)

Units == << <<" ", "B">>, <<" ", "K", "B">>, <<" ", "M", "B">>, <<" ", "G", "B">>, <<" ", "T", "B">> >>

RECURSIVE Pow1024(_)
Pow1024(k) == IF k = 0 THEN 1 ELSE 1024 * Pow1024(k - 1)

\* how often the loop divides by 1024.0 before size < 1024.0, at most 4 times
unit_index(size) ==
    IF size < 1024 THEN 0
    ELSE IF size < Pow1024(2) THEN 1
    ELSE IF size < Pow1024(3) THEN 2
    ELSE IF size < Pow1024(4) THEN 3
    ELSE 4

\* size / d in tenths, rounded to the nearest, ties to the even tenth ("%.1f")
tenths(size, d) ==
    LET q == (size * 10) \div d
        r == (size * 10) % d
    IN IF 2 * r > d \/ (2 * r = d /\ q % 2 = 1) THEN q + 1 ELSE q

format_bytes(size) ==
    IF ~Truthy(size) THEN PyNone
    ELSE LET k == unit_index(size.v)
             n == tenths(size.v, Pow1024(k))
         IN PyStr(NatToStr(n \div 10) \o <<".">> \o NatToStr(n % 10) \o Units[k + 1])

----------------------------------------------------------------------------
(* The dicts of the extractor's JSON: one record shape for the info dict   *)
(* and for a format dict, every key the source reads; a key the JSON does  *)
(* not have is Absent                                                      *)

DictKeys ==
    {"t", "title", "duration", "thumbnail", "uploader", "channel", "upload_date",
     "view_count", "like_count", "webpage_url", "extractor", "formats",
     "format_id", "url", "manifest_url", "fragment_base_url", "ext", "filesize",
     "filesize_approx", "protocol", "height", "width", "fps", "vcodec", "acodec",
     "abr", "asr", "format_note"}

EmptyDict == [k \in DictKeys |-> IF k = "t" THEN "dict" ELSE Absent]

S_none == <<"n", "o", "n", "e">>
S_unknown == <<"u", "n", "k", "n", "o", "w", "n">>

\* datetime.now(timezone.utc).isoformat(): some nonempty text
Timestamp == PyStr(<<"<utc now>">>)

----------------------------------------------------------------------------
(* VideoExtractorEngine.extract: the loop over the formats *)

has_video(fmt) == get(fmt, "vcodec", PyStr(S_none)) \notin {PyStr(S_none), PyNone}
has_audio(fmt) == get(fmt, "acodec", PyStr(S_none)) \notin {PyStr(S_none), PyNone}

video_format(fmt) ==
    [format_id |-> get(fmt, "format_id", PyStr(S_unknown)),
     url |-> extract_format_url(fmt),
     ext |-> get(fmt, "ext", PyStr(S_unknown)),
     filesize |-> get(fmt, "filesize", get(fmt, "filesize_approx", PyInt(0))),
     filesize_human |-> format_bytes(get(fmt, "filesize", get(fmt, "filesize_approx", PyNone))),
     protocol |-> get(fmt, "protocol", PyStr(<<"h", "t", "t", "p", "s">>)),
     height |-> get(fmt, "height", PyInt(0)),
     width |-> get(fmt, "width", PyInt(0)),
     fps |-> get(fmt, "fps", PyInt(0)),
     vcodec |-> get(fmt, "vcodec", PyStr(S_none)),
     quality_label |-> generate_quality_label(fmt),
     is_adaptive |-> ~(has_video(fmt) /\ has_audio(fmt))]

audio_format(fmt) ==
    [format_id |-> get(fmt, "format_id", PyStr(S_unknown)),
     url |-> extract_format_url(fmt),
     ext |-> get(fmt, "ext", PyStr(S_unknown)),
     filesize |-> get(fmt, "filesize", get(fmt, "filesize_approx", PyInt(0))),
     filesize_human |-> format_bytes(get(fmt, "filesize", get(fmt, "filesize_approx", PyNone))),
     protocol |-> get(fmt, "protocol", PyStr(<<"h", "t", "t", "p", "s">>)),
     acodec |-> get(fmt, "acodec", PyStr(S_none)),
     abr |-> get(fmt, "abr", PyInt(0)),
     asr |-> get(fmt, "asr", PyInt(0)),
     quality_label |-> generate_audio_label(fmt),
     is_adaptive |-> TRUE]

emits_video(fmt) == Truthy(extract_format_url(fmt)) /\ has_video(fmt)
\* the audio branch without its "and not has_video"
emits_audio_muxed_too(fmt) == Truthy(extract_format_url(fmt)) /\ has_audio(fmt)

emits_audio(fmt) == Truthy(extract_format_url(fmt)) /\ has_audio(fmt) /\ ~has_video(fmt)

RECURSIVE collect_video(_)
\* video_formats when the loop is over
collect_video(formats) ==
    IF formats = <<>> THEN <<>>
    ELSE (IF emits_video(Head(formats)) THEN <<video_format(Head(formats))>> ELSE <<>>)
         \o collect_video(Tail(formats))

RECURSIVE collect_audio(_)
\* audio_formats when the loop is over
collect_audio(formats) ==
    IF formats = <<>> THEN <<>>
    ELSE (IF emits_audio(Head(formats)) THEN <<audio_format(Head(formats))>> ELSE <<>>)
         \o collect_audio(Tail(formats))

\* the loop raises when a label cannot be made
loop_raises(formats) ==
    \E i \in 1..Len(formats) :
        emits_video(formats[i]) /\ generate_quality_label(formats[i]).t = "raise"

----------------------------------------------------------------------------
(* VideoExtractorEngine.extract: sorting, deduplication, the envelopes *)

\* list.sort(reverse=True): descending, and stable: entries whose keys are
\* equal keep the order they had.  GT(a, b): the key of a is above b's.
SortDesc(s, GT(_, _)) ==
    LET rank(i) == Cardinality({j \in 1..Len(s) : GT(s[j], s[i])})
                   + Cardinality({j \in 1..(i - 1) : ~GT(s[j], s[i]) /\ ~GT(s[i], s[j])})
                   + 1
    IN [p \in 1..Len(s) |-> s[CHOOSE i \in 1..Len(s) : rank(i) = p]]

\* the video sort without reverse=True
video_key_lt(a, b) ==
    \/ a.height.v < b.height.v
    \/ a.height.v = b.height.v /\ IsNum(a.fps) /\ IsNum(b.fps) /\ a.fps.v < b.fps.v

\* (height, fps) of a above (height, fps) of b, as Python orders tuples
video_key_gt(a, b) ==
    \/ a.height.v > b.height.v
    \/ a.height.v = b.height.v /\ IsNum(a.fps) /\ IsNum(b.fps) /\ a.fps.v > b.fps.v

\* the video sort compares an fps that is None with a number: TypeError
video_sort_raises(s) ==
    \E i, j \in 1..Len(s) :
        s[i].height.v = s[j].height.v /\ IsNum(s[i].fps) /\ ~IsNum(s[j].fps)

audio_key_gt(a, b) == IsNum(a.abr) /\ IsNum(b.abr) /\ a.abr.v > b.abr.v

\* the audio sort compares an abr that is None with anything: TypeError
audio_sort_raises(s) ==
    Len(s) >= 2 /\ \E i \in 1..Len(s) : ~IsNum(s[i].abr)

video_key(v) == Str(v.height) \o <<"_">> \o Str(v.fps) \o <<"_">> \o Str(v.vcodec)
audio_key(a) == Str(a.abr) \o <<"_">> \o Str(a.acodec)

RECURSIVE unique(_, _, _)
\* the deduplication loops: an entry is kept when its key was not seen
unique(items, keys, seen) ==
    IF items = <<>> THEN <<>>
    ELSE IF Head(keys) \in seen THEN unique(Tail(items), Tail(keys), seen)
    ELSE <<Head(items)>> \o unique(Tail(items), Tail(keys), seen \cup {Head(keys)})

unique_videos(sorted) == unique(sorted, [i \in 1..Len(sorted) |-> video_key(sorted[i])], {})
unique_audios(sorted) == unique(sorted, [i \in 1..Len(sorted) |-> audio_key(sorted[i])], {})

MaxVideoFormats == 20
MaxAudioFormats == 10

\* s[:n]
Take(s, n) == SubSeq(s, 1, IF Len(s) < n THEN Len(s) ELSE n)

video_info(data, raw_url) ==
    [title |-> get(data, "title", PyStr(<<"U", "n", "k", "n", "o", "w", "n">>)),
     duration |-> get(data, "duration", PyInt(0)),
     thumbnail |-> get(data, "thumbnail", PyStr(<<>>)),
     uploader |-> get(data, "uploader",
                      get(data, "channel", PyStr(<<"U", "n", "k", "n", "o", "w", "n">>))),
     upload_date |-> get(data, "upload_date", PyStr(<<>>)),
     view_count |-> get(data, "view_count", PyInt(0)),
     like_count |-> get(data, "like_count", PyInt(0)),
     webpage_url |-> get(data, "webpage_url", PyStr(raw_url)),
     extractor |-> get(data, "extractor", PyStr(S_unknown))]

\* the list the loop runs over: 'formats', or the info dict itself when
\* there are no formats and it has a 'url'
formats_of(data) ==
    LET formats == get(data, "formats", PyList(<<>>))
    IN IF ~Truthy(formats) /\ Truthy(get(data, "url", PyNone))
       THEN PyList(<<data>>)
       ELSE formats

\* the totals counted after the cut instead of before it
success_envelope_cut_totals(info, videos, audios) ==
    [success |-> TRUE,
     video_info |-> info,
     video_formats |-> Take(videos, MaxVideoFormats),
     audio_formats |-> Take(audios, MaxAudioFormats),
     total_video_formats |-> Len(Take(videos, MaxVideoFormats)),
     total_audio_formats |-> Len(Take(audios, MaxAudioFormats)),
     extraction_time |-> Timestamp]

success_envelope(info, videos, audios) ==
    [success |-> TRUE,
     video_info |-> info,
     video_formats |-> Take(videos, MaxVideoFormats),
     audio_formats |-> Take(audios, MaxAudioFormats),
     total_video_formats |-> Len(videos),
     total_audio_formats |-> Len(audios),
     extraction_time |-> Timestamp]

failure_envelope(e) ==
    [success |-> FALSE,
     error |-> PyStr(e.msg),
     video_info |-> [t |-> "dict"],
     video_formats |-> <<>>,
     audio_formats |-> <<>>,
     extraction_time |-> Timestamp]

\* lines 497-602 of extract, after _run_yt_dlp_json returned data (json_data): the
\* success envelope, or the exception raised on the way
build_result(data, raw_url) ==
    IF data.t # "dict" THEN AttributeError
    ELSE LET formats == formats_of(data)
         IN IF formats.t # "list" THEN TypeError
            ELSE IF loop_raises(formats.items) THEN TypeError
            ELSE LET video_formats == collect_video(formats.items)
                     audio_formats == collect_audio(formats.items)
                 IN IF video_sort_raises(video_formats) \/ audio_sort_raises(audio_formats)
                    THEN TypeError
                    ELSE Return(success_envelope(
                             video_info(data, raw_url),
                             unique_videos(SortDesc(video_formats, video_key_gt)),
                             unique_audios(SortDesc(audio_formats, audio_key_gt))))

\* the try/except of extract around it: every Exception becomes an envelope
envelope_of(outcome) ==
    IF outcome.t = "raise" THEN failure_envelope(outcome) ELSE outcome.value

----------------------------------------------------------------------------
(* Inputs of the study of the format loop: the streams an extractor may    *)
(* report.  Sizes stay below 2^31 / 20, the range of the model's integers. *)

MaxFormats == 3

S_cdn == <<"h", "t", "t", "p", ":", "/", "/", "c", "d", "n", "/", "v">>
S_ftp == <<"f", "t", "p", ":", "/", "/", "c", "d", "n", "/", "v">>
S_avc1 == <<"a", "v", "c", "1">>
S_vp9 == <<"v", "p", "9">>
S_mp4a == <<"m", "p", "4", "a">>
S_opus == <<"o", "p", "u", "s">>

Stream(height, fps, vcodec, acodec, abr) ==
    [EmptyDict EXCEPT !.url = PyStr(S_cdn), !.height = height, !.fps = fps,
                      !.vcodec = vcodec, !.acodec = acodec, !.abr = abr]

StreamKinds ==
    { \* muxed 720p30
      Stream(PyInt(720), PyInt(30), PyStr(S_avc1), PyStr(S_mp4a), PyInt(128)),
      \* video only, 1080p30, fps as int and as float
      Stream(PyInt(1080), PyInt(30), PyStr(S_vp9), PyStr(S_none), Absent),
      Stream(PyInt(1080), PyFloat(30), PyStr(S_vp9), PyStr(S_none), Absent),
      \* video only, 720p60, and 720p without fps
      Stream(PyInt(720), PyInt(60), PyStr(S_avc1), PyStr(S_none), Absent),
      Stream(PyInt(720), PyNone, PyStr(S_avc1), Absent, Absent),
      \* video whose height is null
      Stream(PyNone, PyInt(30), PyStr(S_avc1), PyStr(S_none), Absent),
      \* audio only, abr as int, as float, and null
      Stream(Absent, Absent, PyStr(S_none), PyStr(S_opus), PyInt(128)),
      Stream(Absent, Absent, PyStr(S_none), PyStr(S_opus), PyFloat(128)),
      Stream(PyNone, PyNone, PyNone, PyStr(S_mp4a), PyInt(64)),
      Stream(Absent, Absent, PyStr(S_none), PyStr(S_opus), PyNone),
      \* audio only by default, reachable through its manifest only
      [EmptyDict EXCEPT !.manifest_url = PyStr(S_cdn), !.acodec = PyStr(S_mp4a),
                        !.abr = PyInt(64), !.filesize = PyInt(1536)],
      \* neither video nor audio
      Stream(Absent, Absent, PyStr(S_none), PyStr(S_none), Absent),
      Stream(Absent, Absent, PyNone, PyNone, Absent),
      \* video without a usable URL
      [EmptyDict EXCEPT !.url = PyStr(S_ftp), !.height = PyInt(720), !.fps = PyInt(30),
                        !.vcodec = PyStr(S_avc1), !.acodec = PyStr(S_mp4a)] }

\* the format_id of the stream at position i of the raw list
FormatId(i) == PyStr(<<"f", Digit(i)>>)

WithIds(kinds) == [i \in 1..Len(kinds) |-> [kinds[i] EXCEPT !.format_id = FormatId(i)]]

FormatLists == {WithIds(kinds) : kinds \in SeqsUpTo(StreamKinds, MaxFormats)}

S_raw == <<"h", "t", "t", "p", "s", ":", "/", "/", "e", "x", ".", "c", "o", "/", "v">>

\* how far past the limits of the envelope the long lists go
MaxExtra == 5

\* the i-th of the distinct video-only streams of a long list
LongVideo(i, tag) ==
    [Stream(PyInt(100 + 40 * i), PyInt(30), PyStr(S_vp9), PyStr(S_none), Absent)
        EXCEPT !.format_id = PyStr(<<tag>> \o NatToStr(i))]

\* the i-th of the distinct audio-only streams of a long list
LongAudio(i, tag) ==
    [Stream(Absent, Absent, PyStr(S_none), PyStr(S_opus), PyInt(32 + 8 * i))
        EXCEPT !.format_id = PyStr(<<tag>> \o NatToStr(i))]

\* nv distinct video streams and na distinct audio streams, lowest first or
\* highest first, each reported once or twice
LongList(nv, na, ascending, twice) ==
    LET at(i, n) == IF ascending THEN i ELSE n + 1 - i
        once == [i \in 1..nv |-> LongVideo(at(i, nv), "v")]
                \o [i \in 1..na |-> LongAudio(at(i, na), "a")]
        again == [i \in 1..na |-> LongAudio(i, "b")]
                 \o [i \in 1..nv |-> LongVideo(i, "w")]
    IN IF twice THEN once \o again ELSE once

LongLists ==
    {LongList(nv, na, ascending, twice) :
        nv \in (MaxVideoFormats - 2)..(MaxVideoFormats + MaxExtra),
        na \in (MaxAudioFormats - 2)..(MaxAudioFormats + MaxExtra),
        ascending \in BOOLEAN, twice \in BOOLEAN}

FormatsInputs ==
    {[EmptyDict EXCEPT !.formats = PyList(l)] : l \in FormatLists \cup LongLists}
    \cup {[EmptyDict EXCEPT !.formats = PyNone],
          PyList(<<>>)}
    \cup {[k EXCEPT !.format_id = FormatId(1), !.title = PyStr(<<"T">>)] : k \in StreamKinds}

----------------------------------------------------------------------------
(* Specification of the study of the format loop *)

InitFormats ==
    /\ IdleSvc /\ IdleNorm /\ IdleLb
    /\ \E j \in FormatsInputs : fn = [stage |-> "input", json_data |-> j]

\* lines 497-613 of extract on json_data
Normalize ==
    /\ fn.stage = "input"
    /\ LET outcome == build_result(fn.json_data, S_raw)
           looped == fn.json_data.t = "dict" /\ formats_of(fn.json_data).t = "list"
                     /\ ~loop_raises(formats_of(fn.json_data).items)
       IN fn' = [stage |-> "done",
                 json_data |-> fn.json_data,
                 looped |-> looped,
                 video_formats |-> IF looped THEN collect_video(formats_of(fn.json_data).items) ELSE <<>>,
                 audio_formats |-> IF looped THEN collect_audio(formats_of(fn.json_data).items) ELSE <<>>,
                 raised |-> outcome.t = "raise",
                 envelope |-> envelope_of(outcome)]
    /\ UNCHANGED <<svcVars, norm, lb>>

NextFormats == Normalize

SpecFormats == InitFormats /\ [][NextFormats]_vars

----------------------------------------------------------------------------
(* Claims about the format loop *)

\* the raw streams of a state of the study
RawStreams == formats_of(fn.json_data).items

\* the claims' hasVideo and hasAudio: the codec is there and is not 'none'
HasVideo(raw) == raw.vcodec.t = "str" /\ raw.vcodec.s # S_none
HasAudio(raw) == raw.acodec.t = "str" /\ raw.acodec.s # S_none

UsableUrl(raw) ==
    \E u \in {raw.url, raw.manifest_url, raw.fragment_base_url} :
        u.t = "str" /\ StartsWith(u.s, <<"h", "t", "t", "p">>)

\* the entries of list that came from the raw stream with this format_id
EntriesOf(list, id) == {i \in 1..Len(list) : list[i].format_id = id}

IsSubList(small, big) == \A i \in 1..Len(small) : \E j \in 1..Len(big) : big[j] = small[i]

Emission(raw) ==
    LET v == EntriesOf(fn.video_formats, raw.format_id)
        a == EntriesOf(fn.audio_formats, raw.format_id)
    IN IF ~UsableUrl(raw) THEN v = {} /\ a = {}
       ELSE /\ HasVideo(raw) /\ HasAudio(raw) =>
                 /\ Cardinality(v) = 1 /\ a = {}
                 /\ \A i \in v : fn.video_formats[i].is_adaptive = FALSE
            /\ HasVideo(raw) /\ ~HasAudio(raw) =>
                 /\ Cardinality(v) = 1 /\ a = {}
                 /\ \A i \in v : fn.video_formats[i].is_adaptive = TRUE
            /\ ~HasVideo(raw) /\ HasAudio(raw) =>
                 /\ v = {} /\ Cardinality(a) = 1
                 /\ \A i \in a : fn.audio_formats[i].is_adaptive = TRUE
            /\ ~HasVideo(raw) /\ ~HasAudio(raw) => v = {} /\ a = {}

(* C8: a muxed stream is emitted only into the video list and is not       *)
(* adaptive, a video-only stream only into the video list and adaptive, an *)
(* audio-only stream only into the audio list and adaptive, a stream with  *)
(* neither nowhere; no raw stream is in both lists, neither when the loop  *)
(* is over nor in the envelope                                             *)
C8_Classification ==
    (fn.stage = "done" /\ fn.looped) =>
        /\ \A i \in 1..Len(RawStreams) : Emission(RawStreams[i])
        /\ fn.envelope.success =>
              /\ IsSubList(fn.envelope.video_formats, fn.video_formats)
              /\ IsSubList(fn.envelope.audio_formats, fn.audio_formats)
              /\ \A i \in 1..Len(RawStreams) :
                    \/ EntriesOf(fn.envelope.video_formats, RawStreams[i].format_id) = {}
                    \/ EntriesOf(fn.envelope.audio_formats, RawStreams[i].format_id) = {}

\* a muxed, a video-only and an audio-only stream went through the loop
\* and all three are in the envelope
C8_Witness ==
    /\ fn.stage = "done" /\ fn.looped /\ fn.envelope.success
    /\ \E i \in 1..Len(fn.envelope.video_formats) : ~fn.envelope.video_formats[i].is_adaptive
    /\ \E i \in 1..Len(fn.envelope.video_formats) : fn.envelope.video_formats[i].is_adaptive
    /\ Len(fn.envelope.audio_formats) = 1

\* two Python values are the same value: numbers by their value (30 == 30.0)
SameValue(a, b) == IF IsNum(a) /\ IsNum(b) THEN a.v = b.v ELSE a = b

SameVideoKey(a, b) ==
    SameValue(a.height, b.height) /\ SameValue(a.fps, b.fps) /\ SameValue(a.vcodec, b.vcodec)

SameAudioKey(a, b) == SameValue(a.abr, b.abr) /\ SameValue(a.acodec, b.acodec)

\* position of the entry with this format_id in the list the loop built
EmittedAt(list, id) == CHOOSE i \in 1..Len(list) : list[i].format_id = id

(* C9: in a success envelope no two video streams share (height, fps,      *)
(* vcodec) and no two audio streams share (abr, acodec), and the stream    *)
(* kept for a key is the first one with that key in raw order              *)
C9_Dedup ==
    (fn.stage = "done" /\ fn.envelope.success) =>
        LET videos == fn.envelope.video_formats
            audios == fn.envelope.audio_formats
        IN /\ \A i, j \in 1..Len(videos) : i # j => ~SameVideoKey(videos[i], videos[j])
           /\ \A i, j \in 1..Len(audios) : i # j => ~SameAudioKey(audios[i], audios[j])
           /\ \A i \in 1..Len(videos) : \A k \in 1..Len(fn.video_formats) :
                  SameVideoKey(videos[i], fn.video_formats[k])
                      => EmittedAt(fn.video_formats, videos[i].format_id) <= k
           /\ \A i \in 1..Len(audios) : \A k \in 1..Len(fn.audio_formats) :
                  SameAudioKey(audios[i], fn.audio_formats[k])
                      => EmittedAt(fn.audio_formats, audios[i].format_id) <= k

FpsNotBelow(a, b) == IF IsNum(a) /\ IsNum(b) THEN a.v >= b.v ELSE a.t = b.t

VideoNonIncreasing(list) ==
    \A i \in 1..(Len(list) - 1) :
        \/ list[i].height.v > list[i + 1].height.v
        \/ list[i].height.v = list[i + 1].height.v /\ FpsNotBelow(list[i].fps, list[i + 1].fps)

AudioNonIncreasing(list) ==
    \A i \in 1..(Len(list) - 1) : list[i].abr.v >= list[i + 1].abr.v

(* C10: in every success envelope the video list is non-increasing by      *)
(* (height, then fps) and the audio list is non-increasing by abr          *)
C10_Sorted ==
    (fn.stage = "done" /\ fn.envelope.success) =>
        /\ VideoNonIncreasing(fn.envelope.video_formats)
        /\ AudioNonIncreasing(fn.envelope.audio_formats)

\* three video streams went in with the lowest first, the sort moved the
\* highest to the front and the deduplication dropped one
C10_Witness ==
    /\ fn.stage = "done" /\ fn.envelope.success
    /\ Len(fn.video_formats) = 3
    /\ Len(fn.envelope.video_formats) = 2
    /\ fn.envelope.video_formats[1].format_id # fn.video_formats[1].format_id
    /\ fn.envelope.video_formats[1].height.v > fn.envelope.video_formats[2].height.v

\* the video and audio lists of the call after sorting and deduplication
DedupSortedVideos == unique_videos(SortDesc(fn.video_formats, video_key_gt))
DedupSortedAudios == unique_audios(SortDesc(fn.audio_formats, audio_key_gt))

Min(a, b) == IF a < b THEN a ELSE b

\* small is the first n entries of big
IsPrefix(small, big, n) ==
    /\ Len(small) = n
    /\ n <= Len(big)
    /\ \A i \in 1..n : small[i] = big[i]

(* C11: in every success envelope video_formats is the first min(20, N)    *)
(* entries and audio_formats the first min(10, M) entries of the sorted    *)
(* deduplicated lists, and total_video_formats = N and                     *)
(* total_audio_formats = M are the lengths of those lists before the cut   *)
C11_Truncation ==
    (fn.stage = "done" /\ fn.envelope.success) =>
        LET N == Len(DedupSortedVideos)
            M == Len(DedupSortedAudios)
        IN /\ fn.envelope.total_video_formats = N
           /\ fn.envelope.total_audio_formats = M
           /\ N = Cardinality({video_key(fn.video_formats[i]) : i \in 1..Len(fn.video_formats)})
           /\ M = Cardinality({audio_key(fn.audio_formats[i]) : i \in 1..Len(fn.audio_formats)})
           /\ IsPrefix(fn.envelope.video_formats, DedupSortedVideos, Min(MaxVideoFormats, N))
           /\ IsPrefix(fn.envelope.audio_formats, DedupSortedAudios, Min(MaxAudioFormats, M))

\* 25 distinct video streams and 15 distinct audio streams, each reported
\* twice: the envelope has 20 and 10 of them and the totals are 25 and 15
C11_Witness ==
    /\ fn.stage = "done" /\ fn.envelope.success
    /\ Len(fn.video_formats) = 50 /\ Len(fn.audio_formats) = 30
    /\ Len(fn.envelope.video_formats) = 20 /\ Len(fn.envelope.audio_formats) = 10
    /\ fn.envelope.total_video_formats = 25 /\ fn.envelope.total_audio_formats = 15

----------------------------------------------------------------------------
(* Specification of the study of the quality label: the function on the   *)
(* format dicts an extractor may report                                    *)

\* the highest whole frame rate the study draws
MaxFps == 61

S_tiny == <<"t", "i", "n", "y">>

\* every threshold of the source, the height just below it, and no height
LabelHeights ==
    {PyInt(h) : h \in {0, 100, 143, 144, 239, 240, 359, 360, 479, 480, 719, 720,
                       1079, 1080, 1439, 1440, 2159, 2160, 4319, 4320, 4800}}
    \cup {Absent, PyNone, PyFloat(100), PyFloat(2160)}

LabelFps ==
    {PyInt(f) : f \in 0..MaxFps}
    \cup {Absent, PyNone, PyInt(-1), PyInt(120), PyFloat(0), PyFloat(30), PyFloat(60),
          PyFrac(0, 50), PyFrac(23, 98), PyFrac(29, 97), PyFrac(30, 50), PyFrac(59, 94)}

LabelCodecs ==
    {Absent, PyNone, PyStr(<<>>), PyStr(S_none), PyStr(S_vp9), PyStr(<<"V", "P", "9">>),
     PyStr(<<"a", "v", "c", "1", ".", "6", "4">>), PyStr(<<"a", "v", "1">>),
     PyStr(<<"v", "p", "0", "9">>), PyStr(<<"h", "e", "v", "c">>)}

LabelNotes == {Absent, PyStr(S_tiny)}

LabelInputs ==
    {[EmptyDict EXCEPT !.height = h, !.fps = f, !.vcodec = c, !.format_note = n] :
        h \in LabelHeights, f \in LabelFps, c \in LabelCodecs, n \in LabelNotes}

InitLabel ==
    /\ IdleSvc /\ IdleNorm /\ IdleFn
    /\ \E f \in LabelInputs : lb = [stage |-> "input", fmt |-> f]

\* one call of _generate_quality_label
Label ==
    /\ lb.stage = "input"
    /\ lb' = [stage |-> "done", fmt |-> lb.fmt, outcome |-> generate_quality_label(lb.fmt)]
    /\ UNCHANGED <<svcVars, norm, fn>>

NextLabel == Label

SpecLabel == InitLabel /\ [][NextLabel]_vars

----------------------------------------------------------------------------
(* Claims about the quality label *)

\* the thresholds of the claim, highest first, with their tiers
Tiers ==
    << <<4320, <<"8", "K">> >>, <<2160, <<"4", "K">> >>,
       <<1440, <<"1", "4", "4", "0", "p">> >>, <<1080, <<"1", "0", "8", "0", "p">> >>,
       <<720, <<"7", "2", "0", "p">> >>, <<480, <<"4", "8", "0", "p">> >>,
       <<360, <<"3", "6", "0", "p">> >>, <<240, <<"2", "4", "0", "p">> >>,
       <<144, <<"1", "4", "4", "p">> >> >>

\* the height and the frame rate the label is made from: 0 when the stream
\* has none
HeightOf(fmt) == IF fmt.height = Absent THEN PyInt(0) ELSE fmt.height
FpsOf(fmt) == IF fmt.fps = Absent THEN PyInt(0) ELSE fmt.fps

\* the tier of the first threshold the height reaches, else the format
\* note, else "{height}p"
TierOf(fmt) ==
    LET h == HeightOf(fmt)
        reached == {i \in 1..Len(Tiers) : h.v >= Tiers[i][1]}
    IN IF reached # {} THEN Tiers[CHOOSE i \in reached : \A j \in reached : i <= j][2]
       ELSE IF fmt.format_note.t = "str" /\ fmt.format_note.s # <<>> THEN fmt.format_note.s
       ELSE Str(h) \o <<"p">>

FpsAbove30(fmt) ==
    LET f == FpsOf(fmt)
    IN IsNum(f) /\ (f.v > 30 \/ (f.v = 30 /\ Frac(f) > 0))

\* the tag of the codec family the codec's name has in it, in any case
TagOf(fmt) ==
    LET name == IF fmt.vcodec.t = "str" /\ fmt.vcodec.s # S_none
                THEN Lower(fmt.vcodec.s) ELSE <<>>
    IN IF Contains(name, <<"v", "p", "9">>) THEN <<" ", "(", "V", "P", "9", ")">>
       ELSE IF Contains(name, <<"a", "v", "c">>) THEN <<" ", "(", "H", ".", "2", "6", "4", ")">>
       ELSE IF Contains(name, <<"a", "v", "1">>) THEN <<" ", "(", "A", "V", "1", ")">>
       ELSE <<>>

S_fps == <<"f", "p", "s">>

\* how often "fps" is in the text
RECURSIVE CountFps(_)
CountFps(text) == IF Contains(text, S_fps) THEN 1 + CountFps(After(text, S_fps)) ELSE 0

(* C12 as the claim has it: the label is the tier, then "{fps}fps" once    *)
(* if and only if fps > 30, then the codec tag                             *)
C12_LabelFpsVerbatim ==
    lb.stage = "done" =>
        /\ lb.outcome.t = "str"
        /\ lb.outcome.s = TierOf(lb.fmt)
                          \o (IF FpsAbove30(lb.fmt) THEN Str(FpsOf(lb.fmt)) \o S_fps ELSE <<>>)
                          \o TagOf(lb.fmt)

(* C12: for a height that is a number the label is the tier of the first   *)
(* threshold the height reaches (else the format note, else "{height}p"),  *)
(* then, once, and if and only if fps > 30, the whole part of fps and      *)
(* "fps", then the codec tag; for a height that is null the function       *)
(* raises TypeError and there is no label                                  *)
C12_QualityLabel ==
    lb.stage = "done" =>
        IF IsNum(HeightOf(lb.fmt))
        THEN /\ lb.outcome.t = "str"
             /\ lb.outcome.s = TierOf(lb.fmt)
                               \o (IF FpsAbove30(lb.fmt)
                                   THEN IntToStr(FpsOf(lb.fmt).v) \o S_fps ELSE <<>>)
                               \o TagOf(lb.fmt)
             /\ CountFps(lb.outcome.s) = IF FpsAbove30(lb.fmt) THEN 1 ELSE 0
        ELSE lb.outcome = TypeError

\* the claim's example: height 2160, fps 60, vcodec vp9 is "4K60fps (VP9)"
C12_Witness ==
    /\ lb.stage = "done"
    /\ lb.fmt.height = PyInt(2160) /\ lb.fmt.fps = PyInt(60) /\ lb.fmt.vcodec = PyStr(S_vp9)
    /\ lb.outcome = PyStr(<<"4", "K", "6", "0", "f", "p", "s", " ", "(", "V", "P", "9", ")">>)

----------------------------------------------------------------------------
(* subprocess.run as the invoker uses it *)

MaxStderrLen == 205

S_marker == <<"S", "i", "g", "n", " ", "i", "n", " ", "t", "o", " ", "c", "o", "n", "f", "i", "r", "m">>
S_sentinel == <<"N", "o", " ", "o", "u", "t", "p", "u", "t", " ", "f", "r", "o", "m", " ", "y", "t", "-", "d", "l", "p">>
S_failed == <<"y", "t", "-", "d", "l", "p", " ", "f", "a", "i", "l", "e", "d", ":", " ">>
S_error == <<"y", "t", "-", "d", "l", "p", " ", "e", "r", "r", "o", "r", ":", " ">>
S_timeout_after == <<"T", "i", "m", "e", "o", "u", "t", " ", "a", "f", "t", "e", "r", " ">>
S_seconds == <<" ", "s", "e", "c", "o", "n", "d", "s">>
S_bot == <<"Y", "o", "u", "T", "u", "b", "e", " ", "b", "o", "t", " ", "d", "e", "t", "e", "c", "t", "i", "o", "n", " ", "-", " ", "t", "r", "y", " ", "a", "g", "a", "i", "n", " ", "l", "a", "t", "e", "r", " ", "o", "r", " ", "u", "s", "e", " ", "a", " ", "d", "i", "f", "f", "e", "r", "e", "n", "t", " ", "v", "i", "d", "e", "o">>

\* a line of stdout: blank, text that is no JSON, or a JSON document
BlankLine == [t |-> "blank"]
TextLine == [t |-> "text"]
JsonLine(value) == [t |-> "json", value |-> value]

\* the JSON documents the extractor prints in the model: two good streams,
\* a stream whose height is null, a document that is no object, an object
\* without formats
JsonDocs ==
    { [EmptyDict EXCEPT !.title = PyStr(<<"T">>),
                        !.formats = PyList(WithIds(<<
                            Stream(PyInt(720), PyInt(30), PyStr(S_avc1), PyStr(S_mp4a), PyInt(128)),
                            Stream(PyInt(1080), PyInt(30), PyStr(S_vp9), PyStr(S_none), Absent)>>))],
      [EmptyDict EXCEPT !.formats = PyList(WithIds(<<
                            Stream(PyNone, PyInt(30), PyStr(S_avc1), PyStr(S_none), Absent)>>))],
      PyList(<<>>),
      EmptyDict }

\* what the extractor prints to stdout in the model: nothing, a blank line,
\* text, one JSON document, and a JSON document after a blank line, before
\* a line of text and after a line of text
Stdouts ==
    {<<>>, <<BlankLine>>, <<TextLine>>}
    \cup {<<JsonLine(j)>> : j \in JsonDocs}
    \cup {<<BlankLine, JsonLine(EmptyDict)>>,
          <<JsonLine(EmptyDict), TextLine>>,
          <<TextLine, JsonLine(EmptyDict)>>}

LongText(n) == [i \in 1..n |-> "e"]

\* what the extractor writes to stderr in the model: nothing, blanks only,
\* a short error, the sign-in marker, and texts longer than the limit of
\* the diagnostic, without and with the marker
Stderrs ==
    { <<>>,
      <<" ", "\n">>,
      <<"E", "R", "R", "\n">>,
      <<"E", ":", " ">> \o S_marker \o <<"\n">>,
      LongText(MaxStderrLen),
      LongText(MaxStderrLen - 10) \o S_marker }

\* how a subprocess.run(cmd, timeout=timeout) may end: TimeoutExpired (only
\* when there is a timeout: timeout=None waits without bound), an OSError
\* because the process could not be started, or a CompletedProcess
Outcomes(timeout) ==
    (IF timeout.t = "none" THEN {} ELSE {[t |-> "timeout"]})
    \cup {[t |-> "oserror"]}
    \cup {[t |-> "completed", stdout |-> so, stderr |-> se] : so \in Stdouts, se \in Stderrs}

\* result.stdout.strip() is not empty
stdout_truthy(stdout) == \E i \in 1..Len(stdout) : stdout[i].t # "blank"

\* result.stdout.strip().split('\n')[0]
first_line(stdout) ==
    stdout[CHOOSE i \in 1..Len(stdout) :
               stdout[i].t # "blank" /\ \A j \in 1..(i - 1) : stdout[j].t = "blank"]

\* json.loads(line)
json_loads(line) ==
    IF line.t = "json" THEN Return(line.value)
    ELSE Raise("JSONDecodeError", <<"<JSONDecodeError>">>)

\* json.loads of the whole stripped stdout instead of its first line
parsed_whole(stdout) ==
    IF stdout_truthy(stdout)
    THEN IF Cardinality({i \in 1..Len(stdout) : stdout[i].t # "blank"}) = 1
         THEN json_loads(first_line(stdout))
         ELSE Raise("JSONDecodeError", <<"<JSONDecodeError>">>)
    ELSE Raise("NoOutput", <<>>)

\* lines 153-159 (and their copies): the value an attempt yields, or the
\* reason it yields none
parsed(stdout) ==
    IF stdout_truthy(stdout) THEN json_loads(first_line(stdout))
    ELSE Raise("NoOutput", <<>>)

----------------------------------------------------------------------------
(* VideoExtractorEngine._run_yt_dlp_json and _yt_dlp_fallback_extraction *)

DiagLimit == 200

MainSteps == {"standard", "alt_ua", "minimal", "android", "module"}
FallbackSteps == {"ios", "tv"}

\* "youtube" in url or "youtu.be" in url
is_youtube(u) == Contains(u, S_youtube) \/ Contains(u, S_youtu_be)

\* the step that follows a main attempt that yielded nothing; after the
\* module attempt the code looks at the error stream
next_step(step, u) ==
    CASE step = "standard" -> IF is_youtube(u) THEN "alt_ua" ELSE "minimal"
      [] step = "alt_ua" -> "minimal"
      [] step = "minimal" -> IF is_youtube(u) THEN "android" ELSE "module"
      [] step = "android" -> "module"
      [] step = "module" -> "exhausted"
      [] step = "ios" -> "tv"
      [] step = "tv" -> "exhausted"

\* the cmd an attempt runs: the profile of its arguments and how yt-dlp is
\* started; the module attempt reuses the arguments of the last cmd
cmd_of(step, last_cmd) ==
    IF step = "module" THEN [via |-> "python -m yt_dlp", profile |-> last_cmd.profile]
    ELSE [via |-> "yt-dlp", profile |-> step]

\* line 272
error_msg(res) ==
    IF res.stderr # <<>> THEN Strip(res.stderr, WhiteSpace) ELSE S_sentinel

\* line 280 without the slice
failed_untruncated(msg) == Raise("Exception", S_failed \o msg)

\* line 280
failed(msg) == Raise("Exception", S_failed \o Take(msg, DiagLimit))

\* the except clauses of _run_yt_dlp_json in the wrong order: the general
\* one first
reraise_general_first(e, timeout) == Raise("Exception", S_error \o e.msg)

\* lines 282-285: what the except clauses of _run_yt_dlp_json raise for an
\* exception e that left the try block
reraise(e, timeout) ==
    IF e.exc = "TimeoutExpired"
    THEN Raise("Exception", S_timeout_after \o Str(timeout) \o S_seconds)
    ELSE Raise("Exception", S_error \o e.msg)

\* the exception subprocess.run raises for an outcome that is no
\* CompletedProcess
run_exception(o) ==
    IF o.t = "timeout" THEN Raise("TimeoutExpired", <<"<TimeoutExpired>">>)
    ELSE Raise("OSError", <<"<OSError>">>)

\* a main cascade in which only the first attempt lets a timeout through
main_attempt_first_only(step, o, u, timeout) ==
    IF o.t = "timeout" /\ step # "standard" /\ step # "module"
    THEN [t |-> "continue", step |-> next_step(step, u)]
    ELSE IF o.t # "completed" THEN reraise(run_exception(o), timeout)
    ELSE IF parsed(o.stdout).t = "return" THEN parsed(o.stdout)
    ELSE IF next_step(step, u) # "exhausted"
         THEN [t |-> "continue", step |-> next_step(step, u)]
    ELSE IF Contains(error_msg(o), S_marker) THEN [t |-> "continue", step |-> "ios"]
    ELSE reraise(failed(error_msg(o)), timeout)

\* one attempt of the main cascade (lines 140-285) with outcome o: the
\* value returned, the exception raised, or the step to continue with
main_attempt(step, o, u, timeout) ==
    IF o.t # "completed" THEN reraise(run_exception(o), timeout)
    ELSE IF parsed(o.stdout).t = "return" THEN parsed(o.stdout)
    ELSE IF next_step(step, u) # "exhausted"
         THEN [t |-> "continue", step |-> next_step(step, u)]
    ELSE IF Contains(error_msg(o), S_marker) THEN [t |-> "continue", step |-> "ios"]
    ELSE reraise(failed(error_msg(o)), timeout)

\* the fallback without its try/except around subprocess.run: what the run
\* raises leaves the fallback
fallback_attempt_unswallowed(step, o, u, timeout) ==
    IF o.t # "completed" THEN reraise(run_exception(o), timeout)
    ELSE IF parsed(o.stdout).t = "return" THEN parsed(o.stdout)
    ELSE IF next_step(step, u) # "exhausted"
         THEN [t |-> "continue", step |-> next_step(step, u)]
    ELSE reraise(Raise("Exception", S_bot), timeout)

\* one attempt of the fallback (lines 287-347): every exception of the
\* attempt is swallowed; line 347 raises inside the try block of
\* _run_yt_dlp_json
fallback_attempt(step, o, u, timeout) ==
    IF o.t = "completed" /\ parsed(o.stdout).t = "return" THEN parsed(o.stdout)
    ELSE IF next_step(step, u) # "exhausted"
         THEN [t |-> "continue", step |-> next_step(step, u)]
    ELSE reraise(Raise("Exception", S_bot), timeout)

attempt(step, o, u, timeout) ==
    IF step \in MainSteps THEN main_attempt(step, o, u, timeout)
    ELSE fallback_attempt(step, o, u, timeout)

----------------------------------------------------------------------------
(* VideoExtractorEngine.extract and the handler extract_video *)

\* extract catches nothing but the invoker's own Exception
caught_invoker_only(e) == e.exc = "Exception"

\* line 604, except Exception: every exception of the model is one
caught(e) ==
    e.exc \in {"Exception", "TypeError", "AttributeError", "OSError",
               "TimeoutExpired", "JSONDecodeError"}

\* what the caller of extract gets for the outcome of the try block
extract_outcome(outcome) ==
    IF outcome.t = "raise" /\ ~caught(outcome)
    THEN [raised |-> TRUE, exc |-> outcome.exc]
    ELSE [raised |-> FALSE, envelope |-> envelope_of(outcome)]

\* lines 619-647: the status of the HTTP response
http_status(r) ==
    IF r.raised THEN 500 ELSE IF r.envelope.success THEN 200 ELSE 400

----------------------------------------------------------------------------
(* Specification of the service: a request to POST /api/extract *)

\* the URLs of the requests: a short link, a page of another site, a page
\* of another site with the platform's name in its path, a quoted watch URL
\* with a tracking parameter
RequestUrls ==
    { <<"y", "o", "u", "t", "u", ".", "b", "e", "/", "x">>,
      <<"e", "x", ".", "c", "o", "/", "v">>,
      <<"e", "x", ".", "c", "o", "/">> \o S_youtube,
      <<"\"">> \o S_canonical \o <<"x", "&", "t", "=", "3", "\"">> }

\* VideoRequest.timeout is Optional[int]: the request may carry null or any
\* integer
Timeouts == {PyNone, PyInt(0), PyInt(-5), PyInt(30)}

Init ==
    /\ pc = "idle"
    /\ request = Absent
    /\ url = <<>>
    /\ cmd = Absent
    /\ attempts = <<>>
    /\ result = Absent
    /\ last_stderr = <<>>
    /\ json_data = Absent
    /\ response = Absent
    /\ IdleNorm /\ IdleFn /\ IdleLb

\* extract_video calls extract, extract calls _run_yt_dlp_json, which cleans
\* the URL and builds the standard cmd (lines 619-138)
Request ==
    /\ pc = "idle"
    /\ \E u \in RequestUrls, t \in Timeouts :
           /\ request' = [url |-> u, timeout |-> t]
           /\ url' = clean_url(u)
    /\ cmd' = cmd_of("standard", Absent)
    /\ pc' = "standard"
    /\ UNCHANGED <<attempts, result, last_stderr, json_data, response, norm, fn, lb>>

\* what extract_video answers once the try block of extract is left with r
finish(r) ==
    LET out == extract_outcome(IF r.t = "return" THEN build_result(r.value, request.url) ELSE r)
    IN out @@ [http |-> http_status(out)]

\* the attempt of one step: subprocess.run until it ends, the check of its
\* output, and either the next cmd or the rest of extract
Run(step) ==
    /\ pc = step
    /\ \E o \in Outcomes(request.timeout) :
           LET r == attempt(step, o, url, request.timeout)
               firstJson == o.t = "completed" /\ o.stdout # <<>> /\ o.stdout[1].t = "json"
           IN /\ cmd' = cmd_of(step, cmd)
              /\ attempts' = Append(attempts,
                     [step |-> step, cmd |-> cmd_of(step, cmd), outcome |-> o.t,
                      first_json |-> firstJson,
                      value |-> IF firstJson THEN o.stdout[1].value ELSE Absent])
              /\ result' = IF o.t = "completed" THEN o ELSE result
              /\ last_stderr' = IF o.t = "completed" /\ o.stderr # <<>> THEN o.stderr
                                ELSE last_stderr
              /\ IF r.t = "continue"
                 THEN /\ pc' = r.step
                      /\ UNCHANGED <<json_data, response>>
                 ELSE /\ pc' = "done"
                      /\ json_data' = IF r.t = "return" THEN r.value ELSE json_data
                      /\ response' = finish(r)
    /\ UNCHANGED <<request, url, norm, fn, lb>>

Standard == Run("standard")
AltUserAgent == Run("alt_ua")
Minimal == Run("minimal")
Android == Run("android")
Module == Run("module")
Ios == Run("ios")
Tv == Run("tv")

Next ==
    \/ Request
    \/ Standard
    \/ AltUserAgent
    \/ Minimal
    \/ Android
    \/ Module
    \/ Ios
    \/ Tv

Spec == Init /\ [][Next]_vars

----------------------------------------------------------------------------
(* Claims about the invoker and the service *)

(* C1: once the stdout of an attempt has a first line that parses as JSON, *)
(* that value is returned and no further attempt is started in the call    *)
C1_FirstSuccessWins ==
    \A i \in 1..Len(attempts) :
        attempts[i].first_json =>
            /\ i = Len(attempts)
            /\ pc = "done"
            /\ json_data = attempts[i].value

\* the ios attempt of the fallback printed JSON and the call ended there
C1_Witness ==
    /\ pc = "done"
    /\ Len(attempts) = 6
    /\ attempts[6].step = "ios"
    /\ attempts[6].first_json

TimeoutMessage == PyStr(S_timeout_after \o Str(request.timeout) \o S_seconds)

(* C2: when the first attempt exceeds the timeout the call fails at once   *)
(* with the error 'Timeout after N seconds' and runs no other attempt      *)
C2_FirstTimeoutFailsFast ==
    (attempts # <<>> /\ attempts[1].outcome = "timeout") =>
        /\ Len(attempts) = 1
        /\ pc = "done"
        /\ ~response.raised
        /\ ~response.envelope.success
        /\ response.envelope.error = TimeoutMessage

\* the standard attempt of a request with timeout 30 timed out
C2_Witness ==
    /\ attempts # <<>>
    /\ attempts[1].outcome = "timeout"
    /\ request.timeout = PyInt(30)

EndsWith(s, suffix) ==
    Len(s) >= Len(suffix) /\ SubSeq(s, Len(s) - Len(suffix) + 1, Len(s)) = suffix

\* the main cascade ran to its end, every attempt completed without a
\* parseable line, and the call failed there
Exhausted ==
    /\ pc = "done"
    /\ attempts # <<>>
    /\ attempts[Len(attempts)].step = "module"
    /\ attempts[Len(attempts)].outcome = "completed"
    /\ json_data = Absent

(* C4 as claimed: on exhaustion of the main cascade without the marker the *)
(* diagnostic is the stderr of the latest attempt that wrote a nonempty    *)
(* stderr, or the sentinel when none did, and the message of the error is  *)
(* at most 200 characters long                                             *)
C4_LastNonemptyStderr ==
    (Exhausted /\ ~Contains(last_stderr, S_marker)) =>
        /\ EndsWith(response.envelope.error.s,
                    IF last_stderr = <<>> THEN S_sentinel
                    ELSE Take(Strip(last_stderr, WhiteSpace), DiagLimit))
        /\ Len(response.envelope.error.s) <= DiagLimit

(* C4 as amended: on exhaustion of the main cascade the message is         *)
(* 'yt-dlp error: yt-dlp failed: ' followed by the diagnostic; the         *)
(* diagnostic is the stripped stderr of the last attempt, the module       *)
(* re-invocation, cut to 200 characters, or the sentinel when that attempt *)
(* wrote no stderr; the message is at most 229 characters long             *)
C4_LastAttemptStderr ==
    Exhausted =>
        LET diagnostic == IF result.stderr = <<>> THEN S_sentinel
                          ELSE Take(Strip(result.stderr, WhiteSpace), DiagLimit)
        IN /\ ~response.envelope.success
           /\ response.envelope.error.s = S_error \o S_failed \o diagnostic
           /\ Len(diagnostic) <= DiagLimit
           /\ Len(response.envelope.error.s) <= DiagLimit + 29

\* the cascade was exhausted, the module attempt wrote more than 200
\* characters and the message carries exactly the first 200 of them
C4_Witness ==
    /\ Exhausted
    /\ Len(result.stderr) > DiagLimit
    /\ Len(response.envelope.error.s) = DiagLimit + 29

(* C5: extract never raises; whenever it does not return success it        *)
(* returns success=false with an error message, empty video_info, empty    *)
(* stream lists and a timestamp                                            *)
C5_NeverRaises ==
    pc = "done" =>
        /\ ~response.raised
        /\ response.envelope.success \in BOOLEAN
        /\ ~response.envelope.success =>
              /\ response.envelope.error.t = "str"
              /\ response.envelope.video_info = [t |-> "dict"]
              /\ response.envelope.video_formats = <<>>
              /\ response.envelope.audio_formats = <<>>
              /\ Truthy(response.envelope.extraction_time)

\* the extractor printed a stream whose height is null: the label raised a
\* TypeError inside extract and the caller got the failure envelope
C5_Witness ==
    /\ pc = "done"
    /\ json_data # Absent
    /\ ~response.raised
    /\ ~response.envelope.success
    /\ response.envelope.error = PyStr(TypeError.msg)

(* C6: every request that reaches the invoker has a timeout that is a      *)
(* positive integer, so every subprocess runs under a finite positive      *)
(* bound                                                                   *)
C6_PositiveTimeout ==
    attempts # <<>> => (request.timeout.t = "int" /\ request.timeout.v > 0)

----------------------------------------------------------------------------
(* Claims about the fallback cascade and the order of the attempts *)

LastAttempt == attempts[Len(attempts)]

\* the first line of the stripped stdout is there and is a JSON document
FirstLineParses(stdout) ==
    \E i \in 1..Len(stdout) :
        stdout[i].t = "json" /\ \A j \in 1..(i - 1) : stdout[j].t = "blank"

\* the attempt that has just ended completed and its first line parses
Yielded == LastAttempt.outcome = "completed" /\ FirstLineParses(result.stdout)

\* the attempt that has just ended completed without a parseable line and
\* its error stream has the sign-in marker
SignInRequired ==
    /\ LastAttempt.outcome = "completed"
    /\ ~FirstLineParses(result.stdout)
    /\ Contains(result.stderr, S_marker)

\* the answer of a call that failed with this message: the failure envelope
\* and the status every failed extraction has
FailedWith(msg) ==
    /\ ~response.raised
    /\ response.http = 400
    /\ response.envelope = failure_envelope([msg |-> msg])

(* C13: when the last attempt of the main cascade (no attempt having       *)
(* yielded a parseable line) completes with the sign-in marker in its      *)
(* error stream, the ios attempt follows instead of the exhaustion error,  *)
(* and only then; the tv attempt follows the ios attempt if and only if    *)
(* the ios attempt yielded no parseable first line, whatever way it failed;*)
(* when the tv attempt yields none either, the call fails with the         *)
(* bot-detection message as an ordinary failed extraction                  *)
C13_FallbackCascade ==
    /\ [][(pc = "module" /\ pc' # pc) => (pc' = "ios" <=> SignInRequired')]_vars
    /\ [][(pc' = "ios" /\ pc # pc') => pc = "module"]_vars
    /\ [][(pc = "ios" /\ pc' # pc) => (pc' = "tv" <=> ~Yielded')]_vars
    /\ [][(pc' = "tv" /\ pc # pc') => pc = "ios"]_vars
    /\ [][(pc = "tv" /\ pc' # pc) =>
             /\ pc' = "done"
             /\ ~Yielded' => FailedWith(S_error \o S_bot)']_vars

\* the ios attempt failed to start, the tv attempt ran and printed nothing
\* that parses, and the call failed with the bot-detection message
C13_Witness ==
    /\ pc = "done"
    /\ Len(attempts) >= 2
    /\ attempts[Len(attempts) - 1].step = "ios"
    /\ attempts[Len(attempts) - 1].outcome = "oserror"
    /\ LastAttempt.step = "tv"
    /\ ~Yielded
    /\ FailedWith(S_error \o S_bot)

\* the profiles of the main cascade and of the fallback, in their order
FixedOrder == <<"standard", "alt_ua", "minimal", "android", "module">>
FallbackOrder == <<"ios", "tv">>

\* the host of a normalized URL
Host(u) == Before(After(u, <<":", "/", "/">>), <<"/">>)

\* the normalized URL is of the bot-detecting video platform: its host is
\* one of the platform's
PlatformUrl(u) == Contains(Host(u), S_youtube) \/ Contains(Host(u), S_youtu_be)

IsPrefixOf(small, big) ==
    Len(small) <= Len(big) /\ \A i \in 1..Len(small) : small[i] = big[i]

\* the claim for a call whose URL is, or is not, of the platform
ProfilesInOrder(platform) ==
    LET steps == [i \in 1..Len(attempts) |-> attempts[i].step]
        isMain(p) == p \in MainSteps
        isFallback(p) == p \in FallbackSteps
        applies(p) == platform \/ p \notin {"alt_ua", "android"}
        main == SelectSeq(steps, isMain)
    IN /\ steps = main \o SelectSeq(steps, isFallback)
       /\ IsPrefixOf(main, SelectSeq(FixedOrder, applies))
       /\ IsPrefixOf(SelectSeq(steps, isFallback), FallbackOrder)
       /\ \A i, j \in 1..Len(steps) : i # j => steps[i] # steps[j]
       /\ Len(steps) <= (IF platform THEN 7 ELSE 5)

(* C14: the profiles a call has run are a prefix of standard, alternate    *)
(* user agent, minimal, android client, module re-invocation (the second   *)
(* and the fourth only for a URL of the platform), then possibly a prefix  *)
(* of ios, tv; no profile runs twice; a call runs at most 7 attempts, and  *)
(* at most 5 for a URL that is not of the platform                         *)
C14_Profiles == ProfilesInOrder(PlatformUrl(url))

====
